---- MODULE Spec2Model ----
(***************************************************************************)
(* Model of push-to-talk.py: the key-event consumer loop, the rule         *)
(* classifier apply_rules and the pactl audio-control calls.               *)
(*                                                                         *)
(* Python strings on which the program computes (lower, strip, split,      *)
(* sorted, join, removeprefix, startswith) are sequences of code points,   *)
(* so that these conversions are computed and not assumed.  Strings the    *)
(* program only passes along (source ids, volumes, pactl verbs) are TLA+   *)
(* strings.                                                                *)
(***************************************************************************)
EXTENDS Integers, Sequences, FiniteSets, TLC

(* ---------------------------------------------------------------------- *)
(* Bounds of the model                                                     *)
(* ---------------------------------------------------------------------- *)
\* How many events the monitored devices emit in one run.
MaxEvents == 3
\* How many events may wait in event_queue (the consumer may lag this far).
MaxQueue == 1
\* How many pactl invocations may fail (non-zero exit or not runnable) in a run.
MaxFaults == 1
\* How many directives a rule list given to apply_rules in SpecClassify has.
MaxRules == 2
\* How many times the environment changes the audio server in a run of
\* SpecEnv (default source switched, capture stream opened or closed).
MaxEnvChanges == 1

(* ---------------------------------------------------------------------- *)
(* String literals, as code points                                         *)
(* ---------------------------------------------------------------------- *)
s_f13 == <<102, 49, 51>>
s_f15 == <<102, 49, 53>>
s_f13_f15 == <<102, 49, 51, 32, 102, 49, 53>>
s_all == <<97, 108, 108>>
s_not_all == <<33, 97, 108, 108>>
s_vesktop == <<118, 101, 115, 107, 116, 111, 112>>
s_not_vesktop == <<33, 118, 101, 115, 107, 116, 111, 112>>
s_discord == <<100, 105, 115, 99, 111, 114, 100>>
s_not_discord == <<33, 100, 105, 115, 99, 111, 114, 100>>
s_not_Firefox == <<33, 70, 105, 114, 101, 102, 111, 120>>
s_Vesktop_padded == <<32, 86, 101, 115, 107, 116, 111, 112, 32>>
s_gsr == <<103, 112, 117, 45, 115, 99, 114, 101, 101, 110, 45, 114, 101, 99, 111, 114, 100, 101, 114>>
s_Vesktop == <<86, 101, 115, 107, 116, 111, 112>>
s_Firefox == <<70, 105, 114, 101, 102, 111, 120>>
s_firefox == <<102, 105, 114, 101, 102, 111, 120>>
s_other_app == <<111, 116, 104, 101, 114, 45, 97, 112, 112>>
s_unknown == <<117, 110, 107, 110, 111, 119, 110, 42>>
s_KEY_ == <<75, 69, 89, 95>>
s_KEY_F13 == <<75, 69, 89, 95, 70, 49, 51>>
s_KEY_F15 == <<75, 69, 89, 95, 70, 49, 53>>
s_KEY_A == <<75, 69, 89, 95, 65>>
s_bang == <<33>>
s_space == <<32>>
s_g == <<103>>

(* ---------------------------------------------------------------------- *)
(* Python string operations                                                *)
(* ---------------------------------------------------------------------- *)
IsSpace(c) == c \in {9, 10, 11, 12, 13, 32}

LowerChar(c) == IF c \in 65..90 THEN c + 32 ELSE c

Lower(s) == [i \in 1..Len(s) |-> LowerChar(s[i])]

RECURSIVE LStrip(_)
LStrip(s) == IF s # <<>> /\ IsSpace(Head(s)) THEN LStrip(Tail(s)) ELSE s

RECURSIVE RStrip(_)
RStrip(s) ==
    IF s # <<>> /\ IsSpace(s[Len(s)]) THEN RStrip(SubSeq(s, 1, Len(s) - 1)) ELSE s

Strip(s) == RStrip(LStrip(s))

StartsWith(s, p) == Len(s) >= Len(p) /\ SubSeq(s, 1, Len(p)) = p

RemovePrefix(s, p) == IF StartsWith(s, p) THEN SubSeq(s, Len(p) + 1, Len(s)) ELSE s

\* str.split() with no argument: the maximal runs of non-whitespace.
RECURSIVE SplitFrom(_, _, _)
SplitFrom(s, word, acc) ==
    IF s = <<>>
    THEN IF word = <<>> THEN acc ELSE Append(acc, word)
    ELSE IF IsSpace(Head(s))
         THEN SplitFrom(Tail(s), <<>>, IF word = <<>> THEN acc ELSE Append(acc, word))
         ELSE SplitFrom(Tail(s), Append(word, Head(s)), acc)

Split(s) == SplitFrom(s, <<>>, <<>>)

\* Python's order on str: lexicographic by code point, a proper prefix first.
RECURSIVE StrLess(_, _)
StrLess(a, b) ==
    IF b = <<>> THEN FALSE
    ELSE IF a = <<>> THEN TRUE
    ELSE IF Head(a) # Head(b) THEN Head(a) < Head(b)
    ELSE StrLess(Tail(a), Tail(b))

\* sorted(S) of a set of strings.
RECURSIVE Sorted(_)
Sorted(S) ==
    IF S = {} THEN <<>>
    ELSE LET m == CHOOSE x \in S : \A y \in S \ {x} : StrLess(x, y)
         IN <<m>> \o Sorted(S \ {m})

\* sep.join(seq)
RECURSIVE Join(_, _)
Join(sep, seq) ==
    IF seq = <<>> THEN <<>>
    ELSE IF Len(seq) = 1 THEN seq[1]
    ELSE seq[1] \o sep \o Join(sep, Tail(seq))

Range(seq) == {seq[i] : i \in 1..Len(seq)}

(* ---------------------------------------------------------------------- *)
(* Configuration (module level of push-to-talk.py)                         *)
(* ---------------------------------------------------------------------- *)
\* DEVICE_NAME = ("gsr-ui virtual keyboard"): the parentheses hold one
\* string, not a tuple, so DEVICE_NAME is the str "gsr-ui virtual keyboard".
DEVICE_NAME ==
    <<103, 115, 114, 45, 117, 105, 32, 118, 105, 114, 116, 117, 97, 108, 32,
      107, 101, 121, 98, 111, 97, 114, 100>>

TARGET_MIC_VOLUME == "1.0"

\* The rule table as shipped.
ShippedBINDS ==
    (s_f13 :> <<s_not_all, s_vesktop, s_discord, s_gsr>>)
        @@ (s_f15 :> <<s_not_vesktop, s_not_discord>>)
        @@ (s_f13_f15 :> <<s_all>>)

Restrict(f, D) == [k \in D |-> f[k]]

\* The rule tables considered: the shipped one, and the shipped one without
\* its two-key entry, so that a chord of keys of interest has no entry.
Configs ==
    {ShippedBINDS,
     Restrict(ShippedBINDS, {s_f13, s_f15})}

\* The part of evdev.ecodes the program reads.
EV_SYN == 0
EV_KEY == 1
CODE_A == 30
CODE_NONE == 84
CODE_F13 == 183
CODE_F15 == 185
KEY == (CODE_A :> s_KEY_A) @@ (CODE_F13 :> s_KEY_F13) @@ (CODE_F15 :> s_KEY_F15)

\* Python's None, for values that are otherwise strings of code points.
None == <<-1>>

(* ---------------------------------------------------------------------- *)
(* The environment: input devices and the audio server                     *)
(* ---------------------------------------------------------------------- *)
\* evdev.list_devices(), in its order.
DevicePaths == <<"/dev/input/event3", "/dev/input/event7">>
Devices == Range(DevicePaths)
\* The names the devices may carry: both are named by an element of
\* DEVICE_NAME, one is, or none is.
DeviceSetups ==
    {[d \in Devices |-> s_g],
     [d \in Devices |-> IF d = DevicePaths[1] THEN DEVICE_NAME ELSE s_g],
     [d \in Devices |-> DEVICE_NAME]}

\* Capture devices of the audio server.
Sources == {"mic1", "mic2"}

\* Capture streams (source outputs) as the server lists them: the fields
\* object.serial, application.name, application.process.binary of a record.
s_1 == <<49>>
s_2 == <<50>>
s_3 == <<51>>
s_4 == <<52>>
st_vesktop == [serial |-> s_1, name |-> s_Vesktop, binary |-> s_vesktop]
st_firefox == [serial |-> s_2, name |-> s_Firefox, binary |-> None]
st_nameless == [serial |-> s_3, name |-> None, binary |-> s_other_app]
st_other == [serial |-> s_4, name |-> s_other_app, binary |-> s_other_app]
StreamPool == {st_vesktop, st_firefox, st_nameless, st_other}
Serials == {st.serial : st \in StreamPool}
InitialStreams == <<st_vesktop, st_nameless, st_firefox>>
InitialVolume == "0.6"

VARIABLES
    \* configuration
    BINDS,          \* the rule table, line 15
    \* input devices
    devName,        \* device path -> device name
    down,           \* device path -> key codes physically down on it
    emitted,        \* number of events the devices have emitted
    \* audio server
    defaultSource,  \* the server's default capture device
    srcMute,        \* source -> muted?
    srcVolume,      \* source -> volume
    streams,        \* the server's list of capture streams
    streamVolume,   \* serial -> volume of that capture stream
    faults,         \* number of pactl invocations that failed
    envChanges,     \* number of external changes to the audio server
    \* the process
    pc,             \* position of the main thread
    source,         \* the variable source of __main__
    device_paths,   \* the variable device_paths of __main__
    event_queue,    \* queue.Queue(), oldest first
    event,          \* the variable event of the consumer loop
    key,            \* the variable key of the consumer loop
    ACTIVE_KEYS,    \* line 24
    rules,          \* apply_rules: parameter rules
    todo,           \* the calls of the loop body still to make after this one
    muted_apps,     \* apply_rules: keys of muted_apps
    allowed_apps,   \* apply_rules: keys of allowed_apps
    app_sources,    \* apply_rules: the enumerated streams
    idx,            \* apply_rules: position of the for loop of line 86
    cleanup_source, \* cleanup: the local variable source
    status,         \* exit status of the process, -1 while it runs
    \* observation of the run
    calls,          \* pactl invocations made for the current event, in order
    applied,        \* rule lists handed to apply_rules for the current event
    decided,        \* the decisions printed at line 104 for the current event
    before,         \* ACTIVE_KEYS and the audio state when the event was taken
    lastAccepted,   \* key -> kind of the last accepted event for it
    \* the reader threads, as far as they are followed one step at a time
    inflight,       \* device path -> events read_loop has for its reader
                    \* thread (line 191) and q.put has not yet taken
    consumed        \* the events event_queue.get() has returned, in order

env_vars == <<BINDS, devName, down, emitted, defaultSource, srcMute, srcVolume,
              streams, streamVolume, faults, envChanges>>
proc_vars == <<pc, source, device_paths, event_queue, event, key, ACTIVE_KEYS,
               rules, todo, muted_apps, allowed_apps, app_sources, idx,
               cleanup_source, status>>
obs_vars == <<calls, applied, decided, before, lastAccepted>>
reader_vars == <<inflight, consumed>>
vars == <<env_vars, proc_vars, obs_vars, reader_vars>>

\* Lines 20-23: the keys mentioned in any chord of the rule table.
ALL_KEYS == UNION {Range(Split(k)) : k \in DOMAIN BINDS}

NoEvent == [type |-> -1, code |-> -1, value |-> -1]

AudioState == [mute |-> srcMute, volume |-> srcVolume, streamVolume |-> streamVolume]

Init ==
    /\ BINDS \in Configs
    /\ devName \in DeviceSetups
    /\ down = [d \in Devices |-> {}]
    /\ emitted = 0
    /\ defaultSource = "mic1"
    /\ srcMute = [s \in Sources |-> FALSE]
    /\ srcVolume = [s \in Sources |-> InitialVolume]
    /\ streams = InitialStreams
    /\ streamVolume = [n \in Serials |-> InitialVolume]
    /\ faults = 0
    /\ envChanges = 0
    /\ pc = "start"
    /\ source = ""
    /\ device_paths = <<>>
    /\ event_queue = <<>>
    /\ event = NoEvent
    /\ key = <<>>
    /\ ACTIVE_KEYS = {}
    /\ rules = <<>>
    /\ todo = <<>>
    /\ muted_apps = {}
    /\ allowed_apps = {}
    /\ app_sources = <<>>
    /\ idx = 0
    /\ cleanup_source = ""
    /\ status = -1
    /\ calls = <<>>
    /\ applied = <<>>
    /\ decided = <<>>
    /\ before = [held |-> {}, audio |-> AudioState]
    /\ lastAccepted = [k \in {s_f13, s_f15} |-> "none"]
    /\ inflight = [d \in Devices |-> <<>>]
    /\ consumed = <<>>

(* ---------------------------------------------------------------------- *)
(* pactl invocations: run, lines 25-32                                     *)
(* ---------------------------------------------------------------------- *)
\* How an invocation that returns to its caller ends: "ok" (exit status 0)
\* or "fail" (non-zero exit: CalledProcessError, caught by run, which
\* returns "").  An invocation that raises anything else does not return:
\* see Crash below.
Outcomes == IF faults < MaxFaults THEN {"ok", "fail"} ELSE {"ok"}

run(o, call) ==
    /\ o \in Outcomes
    /\ faults' = IF o = "ok" THEN faults ELSE faults + 1
    /\ calls' = Append(calls, call)

\* An exception leaves the main thread: the interpreter exits with status 1
\* and runs the atexit handlers.
Raise(st) == pc' = "atexit" /\ status' = st

\* The call returns and the loop body goes on with its next call, or with
\* the next iteration when none is left.
Return ==
    /\ pc' = IF todo = <<>> THEN "loop" ELSE Head(todo)
    /\ todo' = IF todo = <<>> THEN <<>> ELSE Tail(todo)
    /\ status' = status

\* Mutant: the first answer is kept and returned from then on.
get_default_source_Cached(o) ==
    IF o # "ok" THEN "" ELSE IF source # "" THEN source ELSE defaultSource

\* get_default_source, lines 33-34: stdout of "pactl get-default-source".
get_default_source(o) == IF o = "ok" THEN defaultSource ELSE ""

\* toggle_mic, lines 35-37: what "pactl set-source-mute src 0|1" does.
MuteArg(state) == IF state THEN "0" ELSE "1"

toggle_mic(src, state, o) ==
    /\ run(o, <<"set-source-mute", src, MuteArg(state)>>)
    /\ srcMute' = IF o = "ok" /\ src \in Sources
                  THEN [srcMute EXCEPT ![src] = (MuteArg(state) = "1")]
                  ELSE srcMute

\* set_source_volume, lines 38-40.
set_source_volume(src, volume, o) ==
    /\ run(o, <<"set-source-volume", src, volume>>)
    /\ srcVolume' = IF o = "ok" /\ src \in Sources
                    THEN [srcVolume EXCEPT ![src] = volume]
                    ELSE srcVolume

\* get_app_sources, lines 41-63: the records of "pactl list source-outputs"
\* that carry a serial and a name, a missing binary read as "unknown*".
AppSource(st) ==
    <<st.serial, st.name, IF st.binary = None \/ st.binary = <<>> THEN s_unknown ELSE st.binary>>

RECURSIVE ParseOutputs(_)
ParseOutputs(recs) ==
    IF recs = <<>> THEN <<>>
    ELSE IF Head(recs).serial = None \/ Head(recs).name = None
         THEN ParseOutputs(Tail(recs))
         ELSE <<AppSource(Head(recs))>> \o ParseOutputs(Tail(recs))

\* Mutant: the streams are enumerated once, when the daemon starts.
get_app_sources_Cached(o) == IF o = "ok" THEN ParseOutputs(InitialStreams) ELSE <<>>

get_app_sources(o) == IF o = "ok" THEN ParseOutputs(streams) ELSE <<>>

(* ---------------------------------------------------------------------- *)
(* apply_rules, lines 64-106                                               *)
(* ---------------------------------------------------------------------- *)
\* Mutant: a directive takes its target out of the other dict, so that the
\* last directive for a target wins.
RECURSIVE ParseRules_LastWins(_, _, _)
ParseRules_LastWins(rs, muted, allowed) ==
    IF rs = <<>> THEN [muted |-> muted, allowed |-> allowed]
    ELSE LET item == Strip(Head(rs))
         IN IF StartsWith(item, s_bang)
            THEN ParseRules_LastWins(Tail(rs), muted \cup {Lower(Tail(item))},
                                     allowed \ {Lower(Tail(item))})
            ELSE ParseRules_LastWins(Tail(rs), muted \ {Lower(item)},
                                     allowed \cup {Lower(item)})

\* Lines 68-77: the loop over the directives, filling the two dicts.
RECURSIVE ParseRules(_, _, _)
ParseRules(rs, muted, allowed) ==
    IF rs = <<>> THEN [muted |-> muted, allowed |-> allowed]
    ELSE LET item == Strip(Head(rs))
         IN IF StartsWith(item, s_bang)
            THEN ParseRules(Tail(rs), muted \cup {Lower(Tail(item))}, allowed)
            ELSE ParseRules(Tail(rs), muted, allowed \cup {Lower(item)})

\* Mutant: the mute directives are consulted before the allow directives.
Decide_MuteFirst(allowed, muted, app_name, app_binary, volume) ==
    LET app_lc == Lower(app_name)
        binary_lc == Lower(app_binary)
    IN IF s_all \in muted \/ app_lc \in muted \/ binary_lc \in muted
       THEN [vol |-> "0.0", action |-> "MUTED"]
       ELSE [vol |-> volume, action |-> "ALLOWED"]

\* Lines 88-102: the decision for one stream.
Decide(allowed, muted, app_name, app_binary, volume) ==
    LET app_lc == Lower(app_name)
        binary_lc == Lower(app_binary)
    IN IF s_all \in allowed \/ app_lc \in allowed \/ binary_lc \in allowed
       THEN [vol |-> volume, action |-> "ALLOWED"]
       ELSE IF s_all \in muted \/ app_lc \in muted \/ binary_lc \in muted
            THEN [vol |-> "0.0", action |-> "MUTED"]
            ELSE [vol |-> volume, action |-> "ALLOWED (default)"]

\* Lines 64-82 (the call at line 220 or 226): the directives are parsed and
\* the streams enumerated.
ApplyRulesEnter ==
    /\ UNCHANGED reader_vars
    /\ pc = "apply"
    /\ \E o \in Outcomes :
        /\ run(o, <<"list", "source-outputs">>)
        /\ applied' = Append(applied, rules)
        /\ LET sets == ParseRules(rules, {}, {})
               found == get_app_sources(o)
           IN /\ muted_apps' = sets.muted
              /\ allowed_apps' = sets.allowed
              /\ app_sources' = found
              /\ IF found = <<>>
                 THEN Return /\ idx' = 0
                 ELSE /\ pc' = "apply_each" /\ idx' = 1
                      /\ todo' = todo /\ status' = status
    /\ UNCHANGED <<BINDS, devName, down, emitted, defaultSource, srcMute, srcVolume,
                   streams, streamVolume, envChanges>>
    /\ UNCHANGED <<source, device_paths, event_queue, event, key, ACTIVE_KEYS,
                   rules, cleanup_source>>
    /\ UNCHANGED <<decided, before, lastAccepted>>

\* Lines 86-104: one iteration of the loop over the enumerated streams.
ApplyRulesEach ==
    /\ UNCHANGED reader_vars
    /\ pc = "apply_each"
    /\ \E o \in Outcomes :
        LET index == app_sources[idx][1]
            d == Decide(allowed_apps, muted_apps, app_sources[idx][2],
                        app_sources[idx][3], TARGET_MIC_VOLUME)
        IN /\ run(o, <<"set-source-output-volume", index, d.vol>>)
           /\ streamVolume' =
                 IF o = "ok" /\ \E i \in 1..Len(streams) : streams[i].serial = index
                 THEN [streamVolume EXCEPT ![index] = d.vol]
                 ELSE streamVolume
           /\ decided' = Append(decided, <<index, d.action, d.vol>>)
           /\ IF idx = Len(app_sources)
              THEN Return /\ idx' = 0
              ELSE /\ pc' = pc /\ idx' = idx + 1
                   /\ todo' = todo /\ status' = status
    /\ UNCHANGED <<BINDS, devName, down, emitted, defaultSource, srcMute, srcVolume,
                   streams, envChanges>>
    /\ UNCHANGED <<source, device_paths, event_queue, event, key, ACTIVE_KEYS,
                   rules, muted_apps, allowed_apps, app_sources, cleanup_source>>
    /\ UNCHANGED <<applied, before, lastAccepted>>

(* ---------------------------------------------------------------------- *)
(* Start-up, lines 178-199                                                 *)
(* ---------------------------------------------------------------------- *)
ENV == <<BINDS, devName, down, emitted, defaultSource, srcMute, srcVolume,
         streams, streamVolume, envChanges>>
APPLY == <<rules, todo, muted_apps, allowed_apps, app_sources, idx>>

\* Line 180.
StartQuery ==
    /\ UNCHANGED reader_vars
    /\ pc = "start"
    /\ \E o \in Outcomes :
        /\ run(o, <<"get-default-source">>)
        /\ source' = get_default_source(o)
        /\ pc' = "start_mute"
        /\ status' = status
    /\ UNCHANGED <<ENV, APPLY>>
    /\ UNCHANGED <<device_paths, event_queue, event, key, ACTIVE_KEYS, cleanup_source>>
    /\ UNCHANGED <<applied, decided, before, lastAccepted>>

\* Mutant: startup unmutes the device.
BaselineState_Unmuted == TRUE

\* Line 182: the state argument of the baseline call, toggle_mic(source, False).
BaselineState == FALSE

\* Line 182.
StartMute ==
    /\ UNCHANGED reader_vars
    /\ pc = "start_mute"
    /\ \E o \in Outcomes :
        /\ toggle_mic(source, BaselineState, o)
        /\ pc' = "find"
        /\ status' = status
    /\ UNCHANGED <<BINDS, devName, down, emitted, defaultSource, srcVolume,
                   streams, streamVolume, envChanges>>
    /\ UNCHANGED <<source, device_paths, event_queue, event, key, ACTIVE_KEYS,
                   cleanup_source, APPLY>>
    /\ UNCHANGED <<applied, decided, before, lastAccepted>>

\* find_device_paths, lines 112-130.  "for want in DEVICE_NAME" goes through
\* the elements of DEVICE_NAME; devices.items() is in list_devices() order.
RECURSIVE Matching(_, _, _)
Matching(paths, want, found) ==
    IF paths = <<>> THEN found
    ELSE Matching(Tail(paths), want,
                  IF want = devName[Head(paths)] /\ Head(paths) \notin Range(found)
                  THEN Append(found, Head(paths))
                  ELSE found)

RECURSIVE FindFrom(_, _)
FindFrom(wants, found) ==
    IF wants = <<>> THEN <<>>
    ELSE LET now == Matching(DevicePaths, <<Head(wants)>>, found)
         IN IF now # <<>> THEN now ELSE FindFrom(Tail(wants), now)

find_device_paths == FindFrom(DEVICE_NAME, <<>>)

\* Lines 184-187.
FindDevices ==
    /\ UNCHANGED reader_vars
    /\ pc = "find"
    /\ device_paths' = find_device_paths
    /\ IF device_paths' = <<>> THEN Raise(1) ELSE pc' = "spawn" /\ status' = status
    /\ UNCHANGED <<ENV, faults, APPLY>>
    /\ UNCHANGED <<source, event_queue, event, key, ACTIVE_KEYS, cleanup_source>>
    /\ UNCHANGED obs_vars

\* Lines 188-199: the queue is made and one reader thread per path started.
StartReaders ==
    /\ UNCHANGED reader_vars
    /\ pc = "spawn"
    /\ event_queue' = <<>>
    /\ pc' = "loop"
    /\ UNCHANGED <<ENV, faults, APPLY>>
    /\ UNCHANGED <<source, device_paths, event, key, ACTIVE_KEYS, cleanup_source, status>>
    /\ UNCHANGED obs_vars

\* The reader threads exist from line 197 on; what they put on the queue
\* after the main thread has left the loop is never taken from it.
ReadersAlive ==
    pc \in {"loop", "query", "release_mute", "set_volume", "apply", "apply_each", "unmute"}

(* ---------------------------------------------------------------------- *)
(* read_device, lines 189-192                                              *)
(* ---------------------------------------------------------------------- *)
\* What a device can emit next: a press of a key that is up on it, a release
\* or a repeat of a key that is down on it, or an event the program ignores.
KeyCodes == {CODE_F13, CODE_F15}

NextEvents(d) ==
    {[type |-> EV_KEY, code |-> c, value |-> 1] : c \in KeyCodes \ down[d]}
        \cup {[type |-> EV_KEY, code |-> c, value |-> v] :
                c \in down[d], v \in {0, 2}}
        \cup {[type |-> EV_SYN, code |-> 0, value |-> 0],
              [type |-> EV_KEY, code |-> CODE_A, value |-> 1],
              [type |-> EV_KEY, code |-> CODE_NONE, value |-> 1]}

\* The device emits an event and its reader thread puts it on the queue.
read_device(d) ==
    /\ UNCHANGED reader_vars
    /\ ReadersAlive
    /\ d \in Range(device_paths)
    /\ emitted < MaxEvents
    /\ Len(event_queue) < MaxQueue
    /\ \E e \in NextEvents(d) :
        /\ event_queue' = Append(event_queue, e)
        /\ down' = IF e.type = EV_KEY /\ e.code \in KeyCodes /\ e.value # 2
                   THEN [down EXCEPT ![d] = IF e.value = 1 THEN @ \cup {e.code}
                                                           ELSE @ \ {e.code}]
                   ELSE down
    /\ emitted' = emitted + 1
    /\ UNCHANGED <<BINDS, devName, defaultSource, srcMute, srcVolume, streams,
                   streamVolume, envChanges, faults, APPLY>>
    /\ UNCHANGED <<pc, source, device_paths, event, key, ACTIVE_KEYS, cleanup_source, status>>
    /\ UNCHANGED obs_vars

(* ---------------------------------------------------------------------- *)
(* The consumer loop, lines 200-227                                        *)
(* ---------------------------------------------------------------------- *)
\* Line 204: evdev.ecodes.KEY.get(event.code)
key_name(e) == IF e.code \in DOMAIN KEY THEN KEY[e.code] ELSE None

\* Line 207.
KeyOf(e) == Lower(RemovePrefix(key_name(e), s_KEY_))

\* Mutant: a press of a key that is already held is skipped as well.
Skipped_Redundant(e) ==
    \/ e.type # EV_KEY \/ e.value = 2
    \/ key_name(e) = None \/ key_name(e) = <<>>
    \/ KeyOf(e) \notin ALL_KEYS
    \/ (e.value = 1 /\ KeyOf(e) \in ACTIVE_KEYS)

\* Mutant: key-repeat events are not skipped.
Skipped_NoRepeat(e) ==
    \/ e.type # EV_KEY
    \/ key_name(e) = None \/ key_name(e) = <<>>
    \/ KeyOf(e) \notin ALL_KEYS

\* Lines 202-209: the events the loop skips.
Skipped(e) ==
    \/ e.type # EV_KEY \/ e.value = 2
    \/ key_name(e) = None \/ key_name(e) = <<>>
    \/ KeyOf(e) \notin ALL_KEYS

\* Lines 201-209: take the next event; a skipped one ends the iteration.
GetEvent ==
    /\ UNCHANGED reader_vars
    /\ pc = "loop"
    /\ event_queue # <<>>
    /\ LET e == Head(event_queue)
       IN /\ event' = e
          /\ event_queue' = Tail(event_queue)
          /\ key' = IF e.type # EV_KEY \/ e.value = 2 \/ key_name(e) = None
                       \/ key_name(e) = <<>>
                    THEN key ELSE KeyOf(e)
          /\ pc' = IF Skipped(e) THEN "loop" ELSE "query"
          /\ lastAccepted' =
                IF Skipped(e) THEN lastAccepted
                ELSE [lastAccepted EXCEPT ![KeyOf(e)] =
                         IF e.value = 1 THEN "press" ELSE "release"]
    /\ calls' = <<>>
    /\ applied' = <<>>
    /\ decided' = <<>>
    /\ before' = [held |-> ACTIVE_KEYS, audio |-> AudioState]
    /\ UNCHANGED <<ENV, faults, APPLY>>
    /\ UNCHANGED <<source, device_paths, ACTIVE_KEYS, cleanup_source, status>>

\* Mutant: a release does not take the key out of the set.
UpdateKeys_NoRelease(held, k, value) ==
    IF value = 1 THEN held \cup {k} ELSE held

\* Lines 211-217.
UpdateKeys(held, k, value) ==
    IF value = 1 THEN held \cup {k}
    ELSE IF value = 0 THEN held \ {k}
    ELSE held

\* Mutant: the held keys are joined without being sorted (here: in the
\* opposite order).
RECURSIVE Reversed(_)
Reversed(seq) == IF seq = <<>> THEN <<>> ELSE Append(Reversed(Tail(seq)), Head(seq))
ChordOf_Unsorted(held) == Join(s_space, Reversed(Sorted(held)))

\* Line 222.
ChordOf(held) == Join(s_space, Sorted(held))

\* Line 223: BINDS.get(rules_key); line 224 tests its truth value.
\* NoRules stands for None where a list of directives is expected.
NoRules == <<None>>
\* Mutant: a chord without an entry falls back to the rule list ["all"].
BindsGet_Fallback(k) == IF k \in DOMAIN BINDS THEN BINDS[k] ELSE <<s_all>>
BindsGet(k) == IF k \in DOMAIN BINDS THEN BINDS[k] ELSE NoRules
Truthy(r) == r # NoRules /\ r # <<>>

\* Mutant: the rule set is applied before the device is muted.
ReleaseSteps_ApplyFirst == <<"apply", "release_mute">>

\* Mutant: the device is unmuted before the rule set is applied.
ConcreteSteps_UnmuteFirst == <<"set_volume", "unmute", "apply">>

\* Mutant: the release of the last key does not mute the device.
ReleaseSteps_NoMute == <<"apply">>

\* Lines 218-221: the calls made when no key is held.
ReleaseSteps == <<"release_mute", "apply">>

\* Lines 224-227: the calls made for a chord that has a rule list.
ConcreteSteps == <<"set_volume", "apply", "unmute">>

\* Lines 210-224: the default source is queried, ACTIVE_KEYS updated and the
\* branch chosen; rules is the list apply_rules will be called with.
Query ==
    /\ UNCHANGED reader_vars
    /\ pc = "query"
    /\ \E o \in Outcomes :
        /\ run(o, <<"get-default-source">>)
        /\ source' = get_default_source(o)
        /\ ACTIVE_KEYS' = UpdateKeys(ACTIVE_KEYS, key, event.value)
        /\ status' = status
        /\ LET found == BindsGet(ChordOf(ACTIVE_KEYS'))
               steps == IF ACTIVE_KEYS' = {} THEN ReleaseSteps
                        ELSE IF Truthy(found) THEN ConcreteSteps
                        ELSE <<>>
           IN /\ rules' = IF ACTIVE_KEYS' = {} THEN <<s_all>> ELSE found
              /\ pc' = IF steps = <<>> THEN "loop" ELSE Head(steps)
              /\ todo' = IF steps = <<>> THEN <<>> ELSE Tail(steps)
    /\ UNCHANGED <<ENV, muted_apps, allowed_apps, app_sources, idx>>
    /\ UNCHANGED <<device_paths, event_queue, event, key, cleanup_source>>
    /\ UNCHANGED <<applied, decided, before, lastAccepted>>

\* Line 219.
ReleaseMute ==
    /\ UNCHANGED reader_vars
    /\ pc = "release_mute"
    /\ \E o \in Outcomes :
        /\ toggle_mic(source, FALSE, o)
        /\ Return
    /\ UNCHANGED <<BINDS, devName, down, emitted, defaultSource, srcVolume,
                   streams, streamVolume, envChanges>>
    /\ UNCHANGED <<source, device_paths, event_queue, event, key, ACTIVE_KEYS,
                   rules, muted_apps, allowed_apps, app_sources, idx, cleanup_source>>
    /\ UNCHANGED <<applied, decided, before, lastAccepted>>

\* Line 225.
SetVolume ==
    /\ UNCHANGED reader_vars
    /\ pc = "set_volume"
    /\ \E o \in Outcomes :
        /\ set_source_volume(source, TARGET_MIC_VOLUME, o)
        /\ Return
    /\ UNCHANGED <<BINDS, devName, down, emitted, defaultSource, srcMute,
                   streams, streamVolume, envChanges>>
    /\ UNCHANGED <<source, device_paths, event_queue, event, key, ACTIVE_KEYS,
                   rules, muted_apps, allowed_apps, app_sources, idx, cleanup_source>>
    /\ UNCHANGED <<applied, decided, before, lastAccepted>>

\* Line 227.
Unmute ==
    /\ UNCHANGED reader_vars
    /\ pc = "unmute"
    /\ \E o \in Outcomes :
        /\ toggle_mic(source, TRUE, o)
        /\ Return
    /\ UNCHANGED <<BINDS, devName, down, emitted, defaultSource, srcVolume,
                   streams, streamVolume, envChanges>>
    /\ UNCHANGED <<source, device_paths, event_queue, event, key, ACTIVE_KEYS,
                   rules, muted_apps, allowed_apps, app_sources, idx, cleanup_source>>
    /\ UNCHANGED <<applied, decided, before, lastAccepted>>

(* ---------------------------------------------------------------------- *)
(* cleanup, lines 107-111, registered with atexit at line 179              *)
(* ---------------------------------------------------------------------- *)
\* Lines 108-109.
CleanupQuery ==
    /\ UNCHANGED reader_vars
    /\ pc = "atexit"
    /\ \E o \in Outcomes :
        /\ run(o, <<"get-default-source">>)
        /\ cleanup_source' = get_default_source(o)
        /\ pc' = IF cleanup_source' = "" THEN "done" ELSE "cleanup_mute"
    /\ UNCHANGED <<ENV, APPLY>>
    /\ UNCHANGED <<source, device_paths, event_queue, event, key, ACTIVE_KEYS, status>>
    /\ UNCHANGED <<applied, decided, before, lastAccepted>>

\* Line 110.
CleanupMute ==
    /\ UNCHANGED reader_vars
    /\ pc = "cleanup_mute"
    /\ \E o \in Outcomes :
        /\ toggle_mic(cleanup_source, FALSE, o)
        /\ pc' = "done"
    /\ UNCHANGED <<BINDS, devName, down, emitted, defaultSource, srcVolume,
                   streams, streamVolume, envChanges>>
    /\ UNCHANGED <<source, device_paths, event_queue, event, key, ACTIVE_KEYS,
                   cleanup_source, status, APPLY>>
    /\ UNCHANGED <<applied, decided, before, lastAccepted>>

(* ---------------------------------------------------------------------- *)
(* An invocation that raises, lines 27-32                                  *)
(* ---------------------------------------------------------------------- *)
\* The states in which the main thread is about to call run.
CallSites ==
    {"start", "start_mute", "query", "release_mute", "set_volume", "apply",
     "apply_each", "unmute"}

\* subprocess.run raises something other than CalledProcessError (as
\* FileNotFoundError when pactl cannot be executed): run does not catch it,
\* nothing on the server changes, the exception leaves the main thread and
\* the interpreter exits with status 1 through the atexit handlers.  What
\* the loop held is read by nothing from here on (cleanup reads only its own
\* local), so it is cleared; source and ACTIVE_KEYS stay as they are.
Crash ==
    /\ UNCHANGED reader_vars
    /\ pc \in CallSites
    /\ faults < MaxFaults
    /\ faults' = faults + 1
    /\ Raise(1)
    /\ event_queue' = <<>>
    /\ event' = NoEvent
    /\ key' = <<>>
    /\ rules' = <<>>
    /\ todo' = <<>>
    /\ muted_apps' = {}
    /\ allowed_apps' = {}
    /\ app_sources' = <<>>
    /\ idx' = 0
    /\ calls' = <<>>
    /\ applied' = <<>>
    /\ decided' = <<>>
    /\ before' = [held |-> {}, audio |-> AudioState]
    /\ lastAccepted' = [k \in {s_f13, s_f15} |-> "none"]
    /\ UNCHANGED ENV
    /\ UNCHANGED <<source, device_paths, ACTIVE_KEYS, cleanup_source>>

\* The same inside cleanup: the exception of an atexit handler is printed
\* and the exit goes on.
CleanupCrash ==
    /\ UNCHANGED reader_vars
    /\ pc \in {"atexit", "cleanup_mute"}
    /\ faults < MaxFaults
    /\ faults' = faults + 1
    /\ pc' = "done"
    /\ UNCHANGED <<ENV, APPLY>>
    /\ UNCHANGED <<source, device_paths, event_queue, event, key, ACTIVE_KEYS,
                   cleanup_source, status>>
    /\ UNCHANGED obs_vars

(* ---------------------------------------------------------------------- *)
(* Signals: no handler is installed anywhere in the script                 *)
(* ---------------------------------------------------------------------- *)
\* The process exists and has not begun to exit.
Running == pc \notin {"atexit", "cleanup_mute", "done"}

\* SIGINT: Python's own handler raises KeyboardInterrupt in the main
\* thread, nothing catches it, and the interpreter exits through the
\* atexit handlers (cleanup, registered at line 179).
Interrupt ==
    /\ UNCHANGED reader_vars
    /\ Running
    /\ pc' = "atexit"
    /\ status' = 130
    /\ event_queue' = <<>>
    /\ event' = NoEvent
    /\ key' = <<>>
    /\ rules' = <<>>
    /\ todo' = <<>>
    /\ muted_apps' = {}
    /\ allowed_apps' = {}
    /\ app_sources' = <<>>
    /\ idx' = 0
    /\ calls' = <<>>
    /\ applied' = <<>>
    /\ decided' = <<>>
    /\ before' = [held |-> {}, audio |-> AudioState]
    /\ lastAccepted' = [k \in {s_f13, s_f15} |-> "none"]
    /\ UNCHANGED <<ENV, faults>>
    /\ UNCHANGED <<source, device_paths, ACTIVE_KEYS, cleanup_source>>

\* SIGTERM (what "systemctl stop" sends to the service of lines 153-165):
\* its disposition is the default one, the kernel ends the process, and
\* functions registered with atexit are not called.
Terminate ==
    /\ UNCHANGED reader_vars
    /\ Running
    /\ pc' = "done"
    /\ status' = 143
    /\ event_queue' = <<>>
    /\ event' = NoEvent
    /\ key' = <<>>
    /\ rules' = <<>>
    /\ todo' = <<>>
    /\ muted_apps' = {}
    /\ allowed_apps' = {}
    /\ app_sources' = <<>>
    /\ idx' = 0
    /\ calls' = <<>>
    /\ applied' = <<>>
    /\ decided' = <<>>
    /\ before' = [held |-> {}, audio |-> AudioState]
    /\ lastAccepted' = [k \in {s_f13, s_f15} |-> "none"]
    /\ UNCHANGED <<ENV, faults>>
    /\ UNCHANGED <<source, device_paths, ACTIVE_KEYS, cleanup_source>>

(* ---------------------------------------------------------------------- *)
(* The audio server changing under the program                             *)
(* ---------------------------------------------------------------------- *)
\* The user selects another default capture device.
SwitchDefault ==
    /\ UNCHANGED reader_vars
    /\ pc # "done"
    /\ envChanges < MaxEnvChanges
    /\ \E s \in Sources \ {defaultSource} : defaultSource' = s
    /\ envChanges' = envChanges + 1
    /\ UNCHANGED <<BINDS, devName, down, emitted, srcMute, srcVolume, streams,
                   streamVolume, faults>>
    /\ UNCHANGED proc_vars
    /\ UNCHANGED obs_vars

\* An application opens a capture stream.
StreamOpen ==
    /\ UNCHANGED reader_vars
    /\ pc # "done"
    /\ envChanges < MaxEnvChanges
    /\ \E st \in StreamPool \ Range(streams) :
        /\ streams' = Append(streams, st)
        /\ streamVolume' = [streamVolume EXCEPT ![st.serial] = InitialVolume]
    /\ envChanges' = envChanges + 1
    /\ UNCHANGED <<BINDS, devName, down, emitted, defaultSource, srcMute, srcVolume, faults>>
    /\ UNCHANGED proc_vars
    /\ UNCHANGED obs_vars

\* An application closes its capture stream.
StreamClose ==
    /\ UNCHANGED reader_vars
    /\ pc # "done"
    /\ envChanges < MaxEnvChanges
    /\ \E i \in 1..Len(streams) :
        streams' = SubSeq(streams, 1, i - 1) \o SubSeq(streams, i + 1, Len(streams))
    /\ envChanges' = envChanges + 1
    /\ UNCHANGED <<BINDS, devName, down, emitted, defaultSource, srcMute, srcVolume,
                   streamVolume, faults>>
    /\ UNCHANGED proc_vars
    /\ UNCHANGED obs_vars

Next ==
    \/ StartQuery
    \/ StartMute
    \/ FindDevices
    \/ StartReaders
    \/ \E d \in Devices : read_device(d)
    \/ GetEvent
    \/ Query
    \/ ReleaseMute
    \/ SetVolume
    \/ ApplyRulesEnter
    \/ ApplyRulesEach
    \/ Unmute
    \/ CleanupQuery
    \/ CleanupMute
    \/ Crash
    \/ CleanupCrash
    \/ Interrupt
    \/ Terminate

\* The program with the audio server changed by nothing but its own calls.
Spec == Init /\ [][Next]_vars

NextEnv ==
    \/ Next
    \/ SwitchDefault
    \/ StreamOpen
    \/ StreamClose

\* The program with the audio server also changing under it.
SpecEnv == Init /\ [][NextEnv]_vars

(* ---------------------------------------------------------------------- *)
(* Vocabulary of the properties                                            *)
(* ---------------------------------------------------------------------- *)
\* The consumer is between two events: the last one is fully processed.
Done == pc = "loop"

\* A press or release of a mapped key that some configured chord mentions.
Accepted(e) ==
    /\ e.type = EV_KEY
    /\ e.value \in {0, 1}
    /\ e.code \in DOMAIN KEY
    /\ \E k \in DOMAIN BINDS : KeyOf(e) \in Range(Split(k))

\* The held keys are exactly the keys of a chord of the rule table.
Configured(held) == \E k \in DOMAIN BINDS : Range(Split(k)) = held

RuleSetOf(held) == BINDS[CHOOSE k \in DOMAIN BINDS : Range(Split(k)) = held]

IsUnmute(c) == c[1] = "set-source-mute" /\ c[3] = "0"
IsMute(c) == c[1] = "set-source-mute" /\ c[3] = "1"
IsStreamVolume(c) == c[1] = "set-source-output-volume"
IsMutating(c) ==
    c[1] \in {"set-source-mute", "set-source-volume", "set-source-output-volume"}

\* The calls from position first on are one set-source-output-volume for
\* each enumerated stream, in enumeration order.
OnePerStream(first) ==
    \A i \in 1..Len(app_sources) :
        /\ IsStreamVolume(calls[first + i - 1])
        /\ calls[first + i - 1][2] = app_sources[i][1]

\* The calls of a complete application of a concrete rule set.
ConcreteSequence ==
    /\ Len(calls) = Len(app_sources) + 4
    /\ calls[1] = <<"get-default-source">>
    /\ calls[2] = <<"set-source-volume", source, TARGET_MIC_VOLUME>>
    /\ calls[3] = <<"list", "source-outputs">>
    /\ OnePerStream(4)
    /\ calls[Len(calls)] = <<"set-source-mute", source, "0">>

(* ---------------------------------------------------------------------- *)
(* C1                                                                      *)
(* ---------------------------------------------------------------------- *)
\* C1: when an accepted event leaves a configured chord held, the calls of
\* that event are set-source-volume(source, target), then one
\* set-source-output-volume per enumerated stream, then
\* set-source-mute(source, unmuted) as the last call; and at no point of any
\* event's processing does an unmute call precede a stream-volume call.
C1_VolumeStreamsUnmute ==
    /\ (Done /\ Accepted(event) /\ Configured(ACTIVE_KEYS)) => ConcreteSequence
    /\ (Done /\ Accepted(event) /\ Configured(ACTIVE_KEYS) /\ faults = 0)
          => app_sources = ParseOutputs(streams)
    /\ \A j \in 1..Len(calls) :
          IsStreamVolume(calls[j]) => \A i \in 1..(j - 1) : ~IsUnmute(calls[i])

\* A concrete rule set has been applied to two streams, every call succeeding.
C1_Witness ==
    /\ Done /\ Accepted(event) /\ Configured(ACTIVE_KEYS)
    /\ faults = 0
    /\ Len(calls) = 6
    /\ IsUnmute(calls[6])

(* ---------------------------------------------------------------------- *)
(* C2                                                                      *)
(* ---------------------------------------------------------------------- *)
\* The volume the rule set of the held chord assigns to an enumerated stream.
AssignedVolume(held, app) ==
    LET sets == ParseRules(IF held = {} THEN <<s_all>> ELSE RuleSetOf(held), {}, {})
    IN Decide(sets.allowed, sets.muted, app[2], app[3], TARGET_MIC_VOLUME).vol

InMainLoop ==
    pc \in {"loop", "query", "release_mute", "set_volume", "apply", "apply_each", "unmute"}

\* C2: in every state of the main loop, intermediate ones included, with
\* every call so far having succeeded: if the device is unmuted, every
\* enumerated capture stream has the volume that the rule set of the held
\* chord assigns to it.
C2_NoLeakWhileLive ==
    (/\ InMainLoop
     /\ faults = 0
     /\ ~srcMute[defaultSource]
     /\ Configured(ACTIVE_KEYS))
    => \A i \in 1..Len(ParseOutputs(streams)) :
          LET app == ParseOutputs(streams)[i]
          IN streamVolume[app[1]] = AssignedVolume(ACTIVE_KEYS, app)

(* ---------------------------------------------------------------------- *)
(* C3                                                                      *)
(* ---------------------------------------------------------------------- *)
\* The release branch is past its first call.
Releasing ==
    /\ pc \in {"apply", "apply_each", "loop"}
    /\ ACTIVE_KEYS = {}
    /\ Accepted(event)

\* C3: when an accepted event leaves no key held, the first audio-changing
\* call is set-source-mute(source, muted), issued whatever the calls before
\* or after it return; only after it is the rule set ["all"] applied (every
\* enumerated stream set to the target volume), and no unmute is issued.
C3_MuteThenResetStreams ==
    /\ Releasing =>
          /\ Len(calls) >= 2
          /\ calls[1] = <<"get-default-source">>
          /\ calls[2] = <<"set-source-mute", source, "1">>
          /\ \A i \in 1..Len(calls) : ~IsUnmute(calls[i])
          /\ \A i \in 1..Len(calls) :
                IsStreamVolume(calls[i]) => i > 3 /\ calls[i][3] = TARGET_MIC_VOLUME
    /\ (Releasing /\ Done) =>
          /\ applied = <<(<<s_all>>)>>
          /\ Len(calls) = Len(app_sources) + 3
          /\ calls[3] = <<"list", "source-outputs">>
          /\ OnePerStream(4)

\* Both keys were pressed, one released (chord f13 or f15 left), then the
\* other: the streams were reset after the mute.
C3_Witness ==
    /\ Releasing /\ Done
    /\ before.held # {}
    /\ Len(calls) = 5
    /\ srcMute[defaultSource]

\* The mute call failed and the stream reset went on all the same.
C3_WitnessMuteFailed ==
    /\ Releasing /\ Done
    /\ ~srcMute[defaultSource]
    /\ source = defaultSource
    /\ Len(calls) = 5

(* ---------------------------------------------------------------------- *)
(* C4                                                                      *)
(* ---------------------------------------------------------------------- *)
\* ACTIVE_KEYS has been updated for the last accepted event.
KeysUpdated ==
    pc \in {"loop", "release_mute", "set_volume", "apply", "apply_each", "unmute"}

PhysicallyDown ==
    {Lower(RemovePrefix(KEY[c], s_KEY_)) :
        c \in UNION {down[d] : d \in Range(device_paths)}}

\* C5: once the queue is drained, the held-key set is the union over the
\* monitored devices of the keys of interest physically down on them.
C5_UnionOverDevices ==
    (Done /\ event_queue = <<>>) => ACTIVE_KEYS = PhysicallyDown

(* ---------------------------------------------------------------------- *)
(* C6                                                                      *)
(* ---------------------------------------------------------------------- *)
\* C6: the rule set applied for an accepted event that leaves keys held is
\* exactly the one bound to the chord of the held keys after the update
\* (sorted, joined by one space), applied once, whatever the order of the
\* presses; no rule set is applied when the chord has no entry.  With the
\* shipped table, f13 and f15 held gives the one application of ["all"].
C6_RuleOfChordAfterUpdate ==
    /\ (Done /\ Accepted(event) /\ ACTIVE_KEYS # {}) =>
          applied = IF Configured(ACTIVE_KEYS)
                    THEN <<RuleSetOf(ACTIVE_KEYS)>>
                    ELSE <<>>
    /\ (Done /\ Accepted(event) /\ ACTIVE_KEYS = {s_f13, s_f15}
          /\ BINDS = ShippedBINDS) => applied = <<(<<s_all>>)>>
    /\ (Done /\ Accepted(event) /\ ACTIVE_KEYS = {s_f13}) =>
          applied = <<ShippedBINDS[s_f13]>>

\* f15 was held and f13 pressed: the rule set of "f13 f15" was applied.
C6_Witness ==
    /\ Done /\ Accepted(event)
    /\ before.held = {s_f15}
    /\ KeyOf(event) = s_f13
    /\ ACTIVE_KEYS = {s_f13, s_f15}
    /\ applied = <<(<<s_all>>)>>
    /\ faults = 0

\* f13 was held and f15 pressed: the same rule set, applied once.
C6_WitnessOtherOrder ==
    /\ Done /\ Accepted(event)
    /\ before.held = {s_f13}
    /\ KeyOf(event) = s_f15
    /\ ACTIVE_KEYS = {s_f13, s_f15}
    /\ applied = <<(<<s_all>>)>>
    /\ faults = 0

(* ---------------------------------------------------------------------- *)
(* C7                                                                      *)
(* ---------------------------------------------------------------------- *)
\* C7: every accepted event is followed by one default-source query and,
\* when no key or a configured chord is held, by one rule application; a
\* press of a key that is already held leaves the set as it was and, its
\* chord being configured, re-issues set-source-volume, the stream volumes
\* and the unmute for the rule set of that chord.
C7_OneEvaluationPerEvent ==
    /\ (Done /\ Accepted(event)) =>
          /\ Len(SelectSeq(calls, LAMBDA c : c = <<"get-default-source">>)) = 1
          /\ Len(applied) = IF ACTIVE_KEYS = {} \/ Configured(ACTIVE_KEYS) THEN 1 ELSE 0
    /\ (Done /\ Accepted(event) /\ event.value = 1 /\ KeyOf(event) \in before.held) =>
          /\ ACTIVE_KEYS = before.held
          /\ Configured(ACTIVE_KEYS) =>
                ConcreteSequence /\ applied = <<RuleSetOf(ACTIVE_KEYS)>>

\* A held key was pressed again (on the other device) and its rule re-applied.
C7_Witness ==
    /\ Done /\ Accepted(event)
    /\ event.value = 1
    /\ KeyOf(event) \in before.held
    /\ Configured(ACTIVE_KEYS)
    /\ faults = 0
    /\ Len(calls) = 6
    /\ ~srcMute[defaultSource]

(* ---------------------------------------------------------------------- *)
(* C8                                                                      *)
(* ---------------------------------------------------------------------- *)
\* C8: an event that is no key event, is a key repeat, has a code without a
\* name, or names a key of no configured chord leaves the held-key set and
\* the audio server as they were, and no pactl call is made for it.
C8_SkippedEventNoEffect ==
    (Done /\ event # NoEvent /\ ~Accepted(event)) =>
        /\ ACTIVE_KEYS = before.held
        /\ calls = <<>>
        /\ applied = <<>>
        /\ AudioState = before.audio

\* A repeat of the held key f13 was skipped while the device was live.
C8_Witness ==
    /\ Done
    /\ faults = 0
    /\ event = [type |-> EV_KEY, code |-> CODE_F13, value |-> 2]
    /\ ACTIVE_KEYS = {s_f13}
    /\ ~srcMute[defaultSource]

C8_WitnessNotKey == Done /\ event.type = EV_SYN /\ ACTIVE_KEYS # {}
C8_WitnessNoName == Done /\ event.code = CODE_NONE /\ ACTIVE_KEYS # {}
C8_WitnessNoChord == Done /\ event.code = CODE_A /\ ACTIVE_KEYS # {}

(* ---------------------------------------------------------------------- *)
(* C9                                                                      *)
(* ---------------------------------------------------------------------- *)
\* C9: when an accepted event leaves held a non-empty chord without an entry
\* in the rule table, the held-key set is updated, the only call is the
\* default-source query, and mute state, device volume and stream volumes
\* are what they were before the event.
C9_NoRuleNoAudioChange ==
    (Done /\ Accepted(event) /\ ACTIVE_KEYS # {} /\ ~Configured(ACTIVE_KEYS)) =>
        /\ \A i \in 1..Len(calls) : ~IsMutating(calls[i])
        /\ calls = <<(<<"get-default-source">>)>>
        /\ applied = <<>>
        /\ AudioState = before.audio
        /\ ACTIVE_KEYS = IF event.value = 1
                         THEN before.held \cup {KeyOf(event)}
                         ELSE before.held \ {KeyOf(event)}

\* f13 was held with the device live, f15 pressed, and "f13 f15" has no entry.
C9_Witness ==
    /\ Done /\ Accepted(event)
    /\ ACTIVE_KEYS = {s_f13, s_f15}
    /\ ~Configured(ACTIVE_KEYS)
    /\ before.held = {s_f13}
    /\ ~srcMute[defaultSource]
    /\ faults = 0

(* ---------------------------------------------------------------------- *)
(* apply_rules on its own, for every rule list of a bounded set            *)
(* ---------------------------------------------------------------------- *)
\* The directives the rule lists are made of: the wildcard and a name, each
\* as allow and as mute directive, with capitals and surrounding blanks.
Directives == {s_all, s_not_all, s_Vesktop_padded, s_not_vesktop, s_not_Firefox}

RuleLists == UNION {[1..n -> Directives] : n \in 0..MaxRules}

\* apply_rules is called with a rule list of RuleLists, the server listing
\* every stream of the pool.
InitClassify ==
    /\ BINDS = ShippedBINDS
    /\ devName = [d \in Devices |-> s_g]
    /\ down = [d \in Devices |-> {}]
    /\ emitted = 0
    /\ defaultSource = "mic1"
    /\ srcMute = [s \in Sources |-> TRUE]
    /\ srcVolume = [s \in Sources |-> InitialVolume]
    /\ streams = <<st_vesktop, st_nameless, st_firefox, st_other>>
    /\ streamVolume = [n \in Serials |-> InitialVolume]
    /\ faults = 0
    /\ envChanges = 0
    /\ pc = "apply"
    /\ source = "mic1"
    /\ device_paths = DevicePaths
    /\ event_queue = <<>>
    /\ event = NoEvent
    /\ key = <<>>
    /\ ACTIVE_KEYS = {}
    /\ rules \in RuleLists
    /\ todo = <<>>
    /\ muted_apps = {}
    /\ allowed_apps = {}
    /\ app_sources = <<>>
    /\ idx = 0
    /\ cleanup_source = ""
    /\ status = -1
    /\ calls = <<>>
    /\ applied = <<>>
    /\ decided = <<>>
    /\ before = [held |-> {}, audio |-> AudioState]
    /\ lastAccepted = [k \in {s_f13, s_f15} |-> "none"]
    /\ inflight = [d \in Devices |-> <<>>]
    /\ consumed = <<>>

NextClassify == ApplyRulesEnter \/ ApplyRulesEach

SpecClassify == InitClassify /\ [][NextClassify]_vars

(* ---------------------------------------------------------------------- *)
(* C10                                                                     *)
(* ---------------------------------------------------------------------- *)
IsMuteDirective(r) == StartsWith(Strip(r), s_bang)
TargetOf(r) == Lower(IF IsMuteDirective(r) THEN Tail(Strip(r)) ELSE Strip(r))
NamesOf(app) == {s_all, Lower(app[2]), Lower(app[3])}

AllowHit(rs, app) ==
    \E i \in 1..Len(rs) : ~IsMuteDirective(rs[i]) /\ TargetOf(rs[i]) \in NamesOf(app)

MuteHit(rs, app) ==
    \E i \in 1..Len(rs) : IsMuteDirective(rs[i]) /\ TargetOf(rs[i]) \in NamesOf(app)

\* The decision and volume the claim states.
Claimed(rs, app) ==
    IF AllowHit(rs, app) THEN <<"ALLOWED", TARGET_MIC_VOLUME>>
    ELSE IF MuteHit(rs, app) THEN <<"MUTED", "0.0">>
    ELSE <<"ALLOWED", TARGET_MIC_VOLUME>>

\* The decision printed at line 104, "ALLOWED (default)" read as ALLOWED.
DecisionOf(action) == IF action = "MUTED" THEN "MUTED" ELSE "ALLOWED"

StreamCalls == SelectSeq(calls, IsStreamVolume)

\* C10: for the rule list applied and every stream decided so far, the
\* decision is ALLOWED at the target volume if "all", the lowercased name or
\* the lowercased binary is an allow directive, else MUTED at 0.0 if one of
\* them is a mute directive, else ALLOWED at the target volume; and that
\* volume is the one given to set-source-output-volume for the stream.
C10_AllowThenMuteThenDefault ==
    \A i \in 1..Len(decided) :
        /\ decided[i][1] = app_sources[i][1]
        /\ <<DecisionOf(decided[i][2]), decided[i][3]>> = Claimed(rules, app_sources[i])
        /\ StreamCalls[i] = <<"set-source-output-volume", decided[i][1], decided[i][3]>>

\* ["!all", " Vesktop "]: Vesktop is allowed at the target volume, while
\* Firefox and other-app are muted.
C10_Witness ==
    /\ rules = <<s_not_all, s_Vesktop_padded>>
    /\ decided = << <<s_1, "ALLOWED", "1.0">>, <<s_2, "MUTED", "0.0">>,
                    <<s_4, "MUTED", "0.0">> >>
    /\ streamVolume[s_1] = "1.0" /\ streamVolume[s_2] = "0.0"

\* ["!vesktop"]: other-app is allowed by default.
C10_WitnessDefault ==
    /\ rules = <<s_not_vesktop>>
    /\ decided = << <<s_1, "MUTED", "0.0">>, <<s_2, "ALLOWED (default)", "1.0">>,
                    <<s_4, "ALLOWED (default)", "1.0">> >>

(* ---------------------------------------------------------------------- *)
(* C11                                                                     *)
(* ---------------------------------------------------------------------- *)
\* C11: on every termination path of the running daemon the process ends
\* out of the exit handler: it is gone only after cleanup has queried the
\* default source and, the query answered, issued
\* set-source-mute(source, muted) for the source of that query.
C11_CleanupOnEveryExit ==
    [][(pc # "done" /\ pc' = "done") =>
          /\ pc \in {"atexit", "cleanup_mute"}
          /\ (pc = "cleanup_mute" /\ faults' = faults) =>
                /\ Len(calls') >= 2
                /\ calls'[Len(calls') - 1] = <<"get-default-source">>
                /\ calls'[Len(calls')] = <<"set-source-mute", cleanup_source, "1">>
                /\ srcMute'[cleanup_source]]_vars

(* ---------------------------------------------------------------------- *)
(* C12                                                                     *)
(* ---------------------------------------------------------------------- *)
\* C12: the daemon stops by itself (exit status 1, no signal delivered) only
\* where device discovery has found nothing; a pactl invocation, whether it
\* exits non-zero or cannot be run, leaves the main thread in the program.
C12_OnlyDiscoveryStops ==
    [][(Running /\ ~Running' /\ status' = 1) => pc = "find"]_vars

(* ---------------------------------------------------------------------- *)
(* C13                                                                     *)
(* ---------------------------------------------------------------------- *)
\* C13: with an empty source, at startup and while an accepted event is
\* processed, none of the calls made is a set-source-mute, a
\* set-source-volume or a set-source-output-volume.
C13_EmptySourceSkips ==
    (/\ pc \in {"find", "spawn", "loop", "release_mute", "set_volume", "apply",
                "apply_each", "unmute"}
     /\ source = "")
    => \A i \in 1..Len(calls) : ~IsMutating(calls[i])

(* ---------------------------------------------------------------------- *)
(* The reader threads and the queue one step at a time, lines 188-201      *)
(* ---------------------------------------------------------------------- *)
\* An event with two marks the program never reads: the device it came
\* from and its number in the order of emission over all devices.
Tagged(e, d, n) ==
    [type |-> e.type, code |-> e.code, value |-> e.value, dev |-> d, n |-> n]

\* Mutant: a queue of capacity 1 that discards what does not fit.
QueuePut_Bounded(q, e) == IF Len(q) >= 1 THEN q ELSE Append(q, e)

\* Line 188 and line 192: queue.Queue() has no maxsize, put appends.
QueuePut(q, e) == Append(q, e)

\* The readers are running and the consumer waits at line 201.
InitQueue ==
    /\ BINDS = ShippedBINDS
    /\ devName = [d \in Devices |-> s_g]
    /\ down = [d \in Devices |-> {}]
    /\ emitted = 0
    /\ defaultSource = "mic1"
    /\ srcMute = [s \in Sources |-> TRUE]
    /\ srcVolume = [s \in Sources |-> InitialVolume]
    /\ streams = InitialStreams
    /\ streamVolume = [n \in Serials |-> InitialVolume]
    /\ faults = 0
    /\ envChanges = 0
    /\ pc = "loop"
    /\ source = "mic1"
    /\ device_paths = DevicePaths
    /\ event_queue = <<>>
    /\ event = NoEvent
    /\ key = <<>>
    /\ ACTIVE_KEYS = {}
    /\ rules = <<>>
    /\ todo = <<>>
    /\ muted_apps = {}
    /\ allowed_apps = {}
    /\ app_sources = <<>>
    /\ idx = 0
    /\ cleanup_source = ""
    /\ status = -1
    /\ calls = <<>>
    /\ applied = <<>>
    /\ decided = <<>>
    /\ before = [held |-> {}, audio |-> AudioState]
    /\ lastAccepted = [k \in {s_f13, s_f15} |-> "none"]
    /\ inflight = [d \in Devices |-> <<>>]
    /\ consumed = <<>>

QUEUE_FRAME ==
    <<BINDS, devName, defaultSource, srcMute, srcVolume, streams, streamVolume,
      faults, envChanges, pc, source, device_paths, key, ACTIVE_KEYS, rules,
      todo, muted_apps, allowed_apps, app_sources, idx, cleanup_source, status,
      calls, applied, decided, before, lastAccepted>>

\* Line 191: the device emits an event and read_loop has it for the reader
\* thread of that device.
ReadLoop(d) ==
    /\ d \in Range(device_paths)
    /\ emitted < MaxEvents
    /\ \E e \in NextEvents(d) :
        /\ inflight' = [inflight EXCEPT ![d] = Append(@, Tagged(e, d, emitted + 1))]
        /\ down' = IF e.type = EV_KEY /\ e.code \in KeyCodes /\ e.value # 2
                   THEN [down EXCEPT ![d] = IF e.value = 1 THEN @ \cup {e.code}
                                                           ELSE @ \ {e.code}]
                   ELSE down
    /\ emitted' = emitted + 1
    /\ UNCHANGED <<event_queue, event, consumed>>
    /\ UNCHANGED QUEUE_FRAME

\* Line 192: the reader thread of the device puts its next event; put never
\* waits, whatever the length of the queue.
QPut(d) ==
    /\ inflight[d] # <<>>
    /\ event_queue' = QueuePut(event_queue, Head(inflight[d]))
    /\ inflight' = [inflight EXCEPT ![d] = Tail(@)]
    /\ UNCHANGED <<down, emitted, event, consumed>>
    /\ UNCHANGED QUEUE_FRAME

\* Line 201: the consumer takes the oldest event of the queue.
QGet ==
    /\ pc = "loop"
    /\ event_queue # <<>>
    /\ event' = Head(event_queue)
    /\ event_queue' = Tail(event_queue)
    /\ consumed' = Append(consumed, Head(event_queue))
    /\ UNCHANGED <<down, emitted, inflight>>
    /\ UNCHANGED QUEUE_FRAME

NextQueue ==
    \/ \E d \in Devices : ReadLoop(d)
    \/ \E d \in Devices : QPut(d)
    \/ QGet

SpecQueue == InitQueue /\ [][NextQueue]_vars

(* ---------------------------------------------------------------------- *)
(* C14                                                                     *)
(* ---------------------------------------------------------------------- *)
OfDevice(seq, d) == SelectSeq(seq, LAMBDA e : e.dev = d)

\* The events of a device from the oldest on: those consumed, those waiting
\* in the queue, those its reader thread has not put yet.
Course(d) == OfDevice(consumed, d) \o OfDevice(event_queue, d) \o inflight[d]

Numbers(seq) == {seq[i].n : i \in 1..Len(seq)}

\* C14: every event emitted is, exactly once, consumed, waiting in the queue
\* or about to be put; the events of each device are consumed, and wait, in
\* the order that device emitted them; the consumer holds the event it took
\* last; and the queue takes every put, however many events wait in it.
C14_EachEventOnceInDeviceOrder ==
    /\ UNION {Numbers(Course(d)) : d \in Devices} = 1..emitted
    /\ Len(consumed) + Len(event_queue)
          + Len(inflight[DevicePaths[1]]) + Len(inflight[DevicePaths[2]]) = emitted
    /\ \A d \in Devices : \A i \in 1..Len(Course(d)) : \A j \in 1..Len(Course(d)) :
          i < j => Course(d)[i].n < Course(d)[j].n
    /\ consumed # <<>> => event = consumed[Len(consumed)]
    /\ \A d \in Devices : inflight[d] # <<>> => ENABLED QPut(d)

\* Every event was consumed, an event of the second device before an
\* earlier event of the first one, and those of the first in their order.
C14_Witness ==
    /\ emitted = MaxEvents
    /\ Len(consumed) = MaxEvents
    /\ consumed[1].dev = DevicePaths[2]
    /\ consumed[1].n = 2
    /\ consumed[2].dev = DevicePaths[1] /\ consumed[2].n = 1
    /\ consumed[3].dev = DevicePaths[1]

\* The consumer lags: every event emitted waits in the queue.
C14_WitnessLag ==
    /\ emitted = MaxEvents
    /\ Len(event_queue) = MaxEvents
    /\ consumed = <<>>

(* ---------------------------------------------------------------------- *)
(* C15                                                                     *)
(* ---------------------------------------------------------------------- *)
\* The enumerated devices whose name is the configured device name.
Named == {d \in Devices : devName[d] = DEVICE_NAME}

\* C15: past device discovery the daemon is in the main loop only if some
\* enumerated device has exactly the configured name, and it then monitors
\* exactly the devices of that name; and with such a device, no call
\* failing, it does not exit with status 1.
C15_LoopIffNamedDevice ==
    /\ (pc = "spawn" \/ InMainLoop) => (Named # {} /\ Range(device_paths) = Named)
    /\ (Named # {} /\ faults = 0) => status # 1

(* ---------------------------------------------------------------------- *)
(* C16                                                                     *)
(* ---------------------------------------------------------------------- *)
\* C16: until the baseline call is made nothing but the default-source
\* query has been issued, no device has been looked for, no reader started
\* and no event consumed; when device discovery begins the calls made are
\* the query and set-source-mute(source, muted) for the source the query
\* returned, and, both succeeding, the default source is muted.
C16_BaselineMuteFirst ==
    /\ pc \in {"start", "start_mute"} =>
          /\ \A i \in 1..Len(calls) : calls[i] = <<"get-default-source">>
          /\ device_paths = <<>> /\ ~ReadersAlive
          /\ emitted = 0 /\ event = NoEvent
    /\ pc \in {"find", "spawn"} =>
          /\ calls = <<(<<"get-default-source">>), <<"set-source-mute", source, "1">> >>
          /\ source \in {defaultSource, ""}
          /\ ~ReadersAlive
          /\ emitted = 0 /\ event = NoEvent
          /\ faults = 0 => srcMute[defaultSource]
    /\ pc = "find" => device_paths = <<>>

\* The device, unmuted when the daemon started, is muted and the reader
\* threads are about to be started.
C16_Witness ==
    /\ pc = "spawn"
    /\ faults = 0
    /\ source = defaultSource
    /\ srcMute[defaultSource]
    /\ device_paths # <<>>

(* ---------------------------------------------------------------------- *)
(* C17                                                                     *)
(* ---------------------------------------------------------------------- *)
IsDeviceCall(c) == c[1] \in {"set-source-mute", "set-source-volume"}

\* The query of line 210 has been made for the event being processed.
Queried == InMainLoop /\ pc # "query" /\ Accepted(event)

\* C17: while an accepted event is processed the first call made for it is
\* the default-source query and every set-source-mute and
\* set-source-volume call made for it targets the source that query
\* returned; and what the query returns is the server's default source at
\* that moment (or nothing when the query fails), whatever was held before.
C17_SourceOfThisEvent ==
    /\ [](Queried =>
            /\ calls # <<>>
            /\ calls[1] = <<"get-default-source">>
            /\ \A i \in 1..Len(calls) : IsDeviceCall(calls[i]) => calls[i][2] = source)
    /\ [][(pc = "query" /\ pc' # "query" /\ InMainLoop') =>
            /\ source' \in {defaultSource, ""}
            /\ faults' = faults => source' = defaultSource]_vars

\* F13 was pressed with mic1 the default source (mic1 set to the target
\* volume and unmuted), the default source changed to mic2, F13 was
\* released: mic2 is the source muted.
C17_Witness ==
    /\ Done /\ Accepted(event)
    /\ faults = 0
    /\ envChanges = 1
    /\ defaultSource = "mic2" /\ source = "mic2"
    /\ srcVolume["mic1"] = TARGET_MIC_VOLUME /\ ~srcMute["mic1"]
    /\ Len(calls) >= 2 /\ calls[2] = <<"set-source-mute", "mic2", "1">>
    /\ srcMute["mic2"]

(* ---------------------------------------------------------------------- *)
(* C18                                                                     *)
(* ---------------------------------------------------------------------- *)
\* The rule lists made of the same directives as rs: its permutations and
\* the lists that repeat some of its directives.
SameDirectives(rs) == {r \in RuleLists : Range(r) = Range(rs)}

\* C18: for the rule list applied and every list of the same directives, in
\* any order and with any repetition, the two dicts are the same, and every
\* stream decided so far has the decision and the volume that list gives.
C18_OrderAndRepeatsIrrelevant ==
    \A other \in SameDirectives(rules) :
        LET sets == ParseRules(other, {}, {})
        IN /\ pc # "apply" =>
                 sets = [muted |-> muted_apps, allowed |-> allowed_apps]
           /\ \A i \in 1..Len(decided) :
                 LET d == Decide(sets.allowed, sets.muted, app_sources[i][2],
                                 app_sources[i][3], TARGET_MIC_VOLUME)
                 IN /\ decided[i] = <<app_sources[i][1], d.action, d.vol>>
                    /\ StreamCalls[i][3] = d.vol
                    /\ (faults = 0 /\ i < idx) =>
                          streamVolume[app_sources[i][1]] = d.vol

\* [" Vesktop ", "!vesktop"] was applied to the three named streams:
\* Vesktop is allowed.
C18_Witness ==
    /\ rules = <<s_Vesktop_padded, s_not_vesktop>>
    /\ pc = "loop"
    /\ Len(decided) = 3
    /\ decided[1] = <<s_1, "ALLOWED", "1.0">>
    /\ faults = 0

\* The same directives in the other order: the same decision.
C18_WitnessReversed ==
    /\ rules = <<s_not_vesktop, s_Vesktop_padded>>
    /\ pc = "loop"
    /\ Len(decided) = 3
    /\ decided[1] = <<s_1, "ALLOWED", "1.0">>
    /\ faults = 0

(* ---------------------------------------------------------------------- *)
(* C19                                                                     *)
(* ---------------------------------------------------------------------- *)
\* The rule application of the event being processed is complete.
Applied == pc \in {"unmute", "loop"} /\ applied # <<>>

\* C19: the set-source-output-volume calls of an event are none before its
\* rule application has enumerated the streams and none when no rule set is
\* applied; during the application they are one call for each enumerated
\* stream gone through so far, in enumeration order; once it is complete
\* they are exactly one call per enumerated stream (none for an empty
\* enumeration); and each application enumerates what the server lists at
\* that moment.
C19_OneCallPerEnumeratedStream ==
    /\ []((InMainLoop /\ pc \in {"query", "release_mute", "set_volume", "apply"})
            => StreamCalls = <<>>)
    /\ []((pc \in {"unmute", "loop"} /\ applied = <<>>) => StreamCalls = <<>>)
    /\ [](pc = "apply_each" =>
            /\ Len(StreamCalls) = idx - 1
            /\ \A i \in 1..Len(StreamCalls) : StreamCalls[i][2] = app_sources[i][1])
    /\ [](Applied =>
            /\ Len(StreamCalls) = Len(app_sources)
            /\ \A i \in 1..Len(StreamCalls) : StreamCalls[i][2] = app_sources[i][1])
    /\ [][(pc = "apply" /\ pc' # "apply" /\ InMainLoop') =>
            /\ app_sources' \in {ParseOutputs(streams), <<>>}
            /\ faults' = faults => app_sources' = ParseOutputs(streams)]_vars

\* A stream was opened between two events: the second application has a
\* call for it, and a call for a stream that already had the volume given.
C19_Witness ==
    /\ Applied /\ Accepted(event)
    /\ faults = 0
    /\ envChanges = 1
    /\ Len(streams) = 4
    /\ Len(StreamCalls) = 3
    /\ StreamCalls[3][2] = s_4
    /\ StreamCalls[1][3] = before.audio.streamVolume[StreamCalls[1][2]]

\* The enumeration was empty (the list call failed): no call was issued.
C19_WitnessEmpty ==
    /\ Applied /\ Accepted(event)
    /\ app_sources = <<>>
    /\ StreamCalls = <<>>

(* ---------------------------------------------------------------------- *)
(* C20                                                                     *)
(* ---------------------------------------------------------------------- *)
\* C20: between two events, with a default source and no call having
\* failed, an unmuted device means that some key is held; and with the
\* shipped rule table the device is unmuted exactly when some key is held.
C20_UnmutedOnlyWhileHeld ==
    (Done /\ faults = 0 /\ source # "") =>
        /\ ~srcMute[defaultSource] => ACTIVE_KEYS # {}
        /\ BINDS = ShippedBINDS => (~srcMute[defaultSource] <=> ACTIVE_KEYS # {})

\* Shipped table: the device was live with both keys held, one key was
\* released (device still live), then the other: the device is muted.
C20_Witness ==
    /\ Done /\ faults = 0
    /\ BINDS = ShippedBINDS
    /\ Accepted(event) /\ event.value = 0
    /\ before.held # {} /\ ~before.audio.mute[defaultSource]
    /\ ACTIVE_KEYS = {}
    /\ srcMute[defaultSource]

\* A table without the chord "f13 f15": both keys are held, no rule set is
\* bound to them and the device is still live from the first key.
C20_WitnessNoChord ==
    /\ Done /\ faults = 0
    /\ BINDS # ShippedBINDS
    /\ ACTIVE_KEYS = {s_f13, s_f15}
    /\ ~srcMute[defaultSource]

====
